---- MODULE Spec2Model ----
(***************************************************************************)
(* Model of http_log_console: the CircularCounter (src/workers.go), the    *)
(* AlarmWorker and StatsWorker goroutines (src/workers.go), the log        *)
(* processor (src/log_processor.go), the dispatch goroutine (src/main.go)  *)
(* and the update goroutine of the UI (src/ui.go).                         *)
(*                                                                         *)
(* Clock readings are uint64 nanosecond counts in the source.  The model   *)
(* scales them: one second is Second clock units and the uint64 range      *)
(* is Uint64 units, subtraction wrapping modulo Uint64 as in Go.           *)
(***************************************************************************)
EXTENDS Integers, Sequences, FiniteSets, TLC

\* ------------------------------------------------------------------ bounds
MaxWindow == 3      \* largest window (-w) explored
MaxClock  == 6      \* largest reading, in seconds, given to FakeClocker.Set
MaxVal    == 2      \* largest value given to CircularCounter.Add in SpecCounter
MaxTotal  == 5      \* largest total of the values added in SpecCounter
MaxThreshold == 2   \* largest threshold (-t) explored
MaxHits   == 3      \* number of hits sent by the test of the AlarmWorker
MaxLines  == 2      \* number of hits parsed by the log processor in Spec
PipeWindow == 1     \* largest window (-w) explored in Spec
PipeThreshold == 1  \* largest threshold (-t) explored in Spec
PipeInterval == 1   \* largest stats interval (-i) explored in Spec
MaxStatsHits == 3   \* number of hits sent to the StatsWorker in SpecStats
MaxStatsInterval == 2  \* largest stats interval (-i) explored in SpecStats
MaxUri == 4         \* longest URI explored in SpecSection
FineWindow == 6     \* largest window explored in SpecFine
FineTotal == 2      \* largest total of the values added in SpecFine
ConfigSpan == 1     \* -w, -t and -i range over -ConfigSpan..ConfigSpan in SpecConfig

\* time.Second, scaled (1e9 ns in the source)
Second == 2
\* number of values of a uint64 clock reading, scaled (2^64 in the source)
Uint64 == (MaxClock + 1) * Second

VARIABLES
    now,          \* Clocker.Now(): FakeClocker.now / the monotonic clock
    counter,      \* CircularCounter: buckets, currentIndex, currentTime
    lastCall,     \* SpecCounter: the call the test driver made last
    sumResult,    \* SpecCounter: value returned by the last Sum()
    addedAt,      \* history: total of the values added at each clock reading
    threshold,    \* AlarmWorker.threshold
    triggered,    \* AlarmWorker.triggered
    alarmPc,      \* AlarmWorker goroutine: "select", "sendHigh", "sendNormal", "exit"
    sum,          \* AlarmWorker goroutine: the local sum of the last tick
    alarmTick,    \* AlarmWorker goroutine: a tick is waiting in ticker.C
    alerts,       \* history: the alerts received from AlarmWorker.out
    alarmRecv,    \* history: the hits received from AlarmWorker.in
    seen,         \* history: seen[d] hits were received d whole seconds ago
    inputDone,    \* the input has ended: no further hit will be produced
    srcPc,        \* LogProcessor.Run: "select", "send" (blocked on out <- &Hit), "exit"
    srcHit,       \* LogProcessor.Run: the hit being sent
    srcSeq,       \* history: the hits parsed by LogProcessor.Run
    dispPc,       \* dispatch goroutine: "recv", "toStats", "toAlarm"
    dispHit,      \* dispatch goroutine: the loop variable hit
    dispSeq,      \* history: the hits read from the hits channel
    statsPc,      \* StatsWorker goroutine: "select", "send" (blocked on out <- stats), "exit"
    interval,     \* StatsWorker.interval
    totalHits,    \* StatsWorker.totalHits
    statusHits,   \* StatsWorker.statusHits
    sectionHits,  \* StatsWorker.sectionHits
    statsTick,    \* StatsWorker goroutine: a tick is waiting in ticker.C
    statsWait,    \* seconds until the ticker of the StatsWorker fires
    statsOut,     \* StatsWorker goroutine: the local stats being sent
    statsRecv,    \* history: the hits received from StatsWorker.in
    uiPc,         \* update goroutine of DrawUi: "select", "exit"
    uiStats,      \* sl.Items: the snapshot displayed
    reported,     \* history: total of the total lines of the snapshots received
    done          \* the done channel is closed

testVars  == <<lastCall, sumResult, addedAt>>
alarmVars == <<threshold, triggered, alarmPc, sum, alarmTick, alerts, alarmRecv, seen>>
srcVars   == <<srcPc, srcHit, srcSeq>>
dispVars  == <<dispPc, dispHit, dispSeq>>
statsVars == <<statsPc, interval, totalHits, statusHits, sectionHits,
               statsTick, statsWait, statsOut, statsRecv>>
uiVars    == <<uiPc, uiStats, reported, done>>
pipeVars  == <<srcVars, dispVars, statsVars, uiVars>>
vars == <<now, counter, testVars, alarmVars, inputDone, pipeVars>>

\* --------------------------------------------------------- CircularCounter
Min(a, b) == IF a < b THEN a ELSE b

RECURSIVE SumUpTo(_, _)
SumUpTo(f, n) == IF n < 0 THEN 0 ELSE f[n] + SumUpTo(f, n - 1)

\* len(c.buckets)
Window(c) == Cardinality(DOMAIN c.buckets)

\*   currentIndex: window, one past the last bucket
NewCircularCounterPastEnd(window, clockNow) ==
    [buckets      |-> [i \in 0..(window - 1) |-> 0],
     currentIndex |-> window,
     currentTime  |-> clockNow]

\* NewCircularCounter(window, clocker)
NewCircularCounter(window, clockNow) ==
    [buckets      |-> [i \in 0..(window - 1) |-> 0],
     currentIndex |-> 0,
     currentTime  |-> clockNow]

\*   the elapsed time rounded up to the next second
StepsRoundedUp(c, clockNow) ==
    (((clockNow - c.currentTime) % Uint64) + Second - 1) \div Second

\* steps := int((now - c.currentTime) / uint64(time.Second))
Steps(c, clockNow) == ((clockNow - c.currentTime) % Uint64) \div Second

\* the body of Forward's loop, for a given (already clamped) step count:
\*   for i := start; i < start+steps-1; i++   -- the loop stopping short
ZeroedShort(c, steps) ==
    {i % Window(c) : i \in (c.currentIndex + 1)..(c.currentIndex + steps - 1)}

\*   start := c.currentIndex + 1
\*   for i := start; i <= start+steps; i++ { c.buckets[i%len(c.buckets)] = 0 }
Zeroed(c, steps) ==
    {i % Window(c) : i \in (c.currentIndex + 1)..(c.currentIndex + 1 + steps)}

\* CircularCounter.Forward
Forward(c, clockNow) ==
    LET raw   == Steps(c, clockNow)
        steps == Min(raw, Window(c))
    IN  IF raw <= 0
        THEN c
        ELSE [buckets      |-> [i \in DOMAIN c.buckets |->
                                  IF i \in Zeroed(c, steps) THEN 0 ELSE c.buckets[i]],
              currentIndex |-> (c.currentIndex + steps) % Window(c),
              currentTime  |-> clockNow]

\* CircularCounter.Add: the counter after Add(v)
Add(c, clockNow, v) ==
    LET f == Forward(c, clockNow)
    IN  [f EXCEPT !.buckets[f.currentIndex] = @ + v]

\* CircularCounter.Sum: the value returned (the counter becomes Forward(c, now))
Sum(c, clockNow) ==
    LET f == Forward(c, clockNow)
    IN  SumUpTo(f.buckets, Window(f) - 1)

\* ------------------------------------------------- SpecCounter: the test
\* TestCircularCounterSum drives one counter through a FakeClocker.
\* the test driver before its first call
TestStart ==
    /\ lastCall = "new"
    /\ sumResult = 0
    /\ addedAt = [t \in 0..(MaxClock * Second) |-> 0]

\* no AlarmWorker: the variables of the worker, unused
NoAlarmWorker ==
    /\ threshold = 1
    /\ triggered = FALSE
    /\ alarmPc = "select"
    /\ sum = 0
    /\ alarmTick = FALSE
    /\ alerts = <<>>
    /\ alarmRecv = <<>>
    /\ seen = <<>>

\* a Hit with zero-valued fields: &Hit{}
ZeroHit == [uri |-> <<>>, status |-> 0]

\* no pipeline: the variables of the other goroutines, unused
NoPipeline ==
    /\ srcPc = "select" /\ srcHit = ZeroHit /\ srcSeq = <<>>
    /\ dispPc = "recv" /\ dispHit = ZeroHit /\ dispSeq = <<>>
    /\ statsPc = "select" /\ interval = 1 /\ totalHits = 0
    /\ statusHits = [i \in 0..5 |-> 0] /\ sectionHits = <<>>
    /\ statsTick = FALSE /\ statsWait = 1 /\ statsOut = <<>> /\ statsRecv = <<>>
    /\ uiPc = "select" /\ uiStats = <<>> /\ reported = 0 /\ done = FALSE

InitCounter ==
    /\ now = 0
    /\ \E w \in 1..MaxWindow : counter = NewCircularCounter(w, 0)
    /\ TestStart
    /\ NoAlarmWorker
    /\ inputDone = FALSE
    /\ NoPipeline

\* total of the values added so far
TotalAdded == SumUpTo(addedAt, MaxClock * Second)

\* FakeClocker.Set(v), with v not before the current reading
ClockSet ==
    /\ \E v \in 0..MaxClock :
          /\ v * Second > now
          /\ now' = v * Second
    /\ lastCall' = "set"
    /\ UNCHANGED <<counter, sumResult, addedAt, alarmVars, inputDone, pipeVars>>

\* counter.Add(v)
CounterAdd ==
    /\ \E v \in 0..MaxVal :
          /\ TotalAdded + v <= MaxTotal
          /\ counter' = Add(counter, now, v)
          /\ addedAt' = [addedAt EXCEPT ![now] = @ + v]
    /\ lastCall' = "add"
    /\ UNCHANGED <<now, sumResult, alarmVars, inputDone, pipeVars>>

\* v = counter.Sum()
CounterSum ==
    /\ sumResult' = Sum(counter, now)
    /\ counter' = Forward(counter, now)
    /\ lastCall' = "sum"
    /\ UNCHANGED <<now, addedAt, alarmVars, inputDone, pipeVars>>

NextCounter == ClockSet \/ CounterAdd \/ CounterSum

SpecCounter == InitCounter /\ [][NextCounter]_vars

\* --------------------------- SpecFine: the counter at sub-second readings
\* As SpecCounter, the clock being read at any instant and not at whole
\* seconds only (MonoClocker.Now() counts nanoseconds).
InitFine ==
    /\ now = 0
    /\ \E w \in 1..FineWindow : counter = NewCircularCounter(w, 0)
    /\ TestStart
    /\ NoAlarmWorker
    /\ inputDone = FALSE
    /\ NoPipeline

\* the clock moves on to any later reading
FineClockSet ==
    /\ \E v \in 1..(MaxClock * Second) :
          /\ v > now
          /\ now' = v
    /\ lastCall' = "set"
    /\ UNCHANGED <<counter, sumResult, addedAt, alarmVars, inputDone, pipeVars>>

\* counter.Add(v)
FineAdd ==
    /\ TotalAdded < FineTotal
    /\ CounterAdd

NextFine == FineClockSet \/ FineAdd \/ CounterSum

SpecFine == InitFine /\ [][NextFine]_vars

\* ------------------------------------------------------------ AlarmWorker

\* the ticker case: the branch taken for a given sum
\*   if !a.triggered && sum > a.threshold   -- the comparison made strict
AlarmBranchStrict(trig, s, th) ==
    IF ~trig /\ s > th THEN "sendHigh"
    ELSE IF trig /\ s < th THEN "sendNormal"
    ELSE "select"

\*   if !a.triggered && sum >= a.threshold { out <- "High traffic ..." }
\*   else if a.triggered && sum < a.threshold { out <- "Traffic went back ..." }
AlarmBranch(trig, s, th) ==
    IF ~trig /\ s >= th THEN "sendHigh"
    ELSE IF trig /\ s < th THEN "sendNormal"
    ELSE "select"

\* the assignment that follows the send on out
\*   a.triggered left as it was
TriggeredAfterStuck(pc, trig) == trig

\*   a.triggered = true after "High traffic", a.triggered = false after "back to normal"
TriggeredAfter(pc, trig) == pc = "sendHigh"

\* the text sent on out, reduced to its kind
AlertText(pc) == IF pc = "sendHigh" THEN "High traffic" ELSE "back to normal"

\* NewAlarmWorker(window, threshold, done, logger), before the goroutine runs
NewAlarmWorker(window, th) ==
    /\ counter = NewCircularCounter(window, now)
    /\ threshold = th
    /\ triggered = FALSE
    /\ alarmPc = "select"
    /\ sum = 0
    /\ alarmTick = FALSE
    /\ alerts = <<>>
    /\ alarmRecv = <<>>
    /\ seen = [d \in 0..(window - 1) |-> 0]

\* case <-a.in: a.counter.Add(1)
AlarmObserve(hit) ==
    /\ alarmPc = "select"
    /\ counter' = Add(counter, now, 1)
    /\ alarmRecv' = Append(alarmRecv, hit)
    /\ seen' = [seen EXCEPT ![0] = @ + 1]
    /\ UNCHANGED <<threshold, triggered, alarmPc, sum, alarmTick, alerts>>

\* case <-ticker.C: sum := a.counter.Sum(), then the branch; the goroutine
\* stops at the send on out when an alert is due
AlarmTick ==
    /\ alarmPc = "select"
    /\ alarmTick
    /\ alarmTick' = FALSE
    /\ sum' = Sum(counter, now)
    /\ counter' = Forward(counter, now)
    /\ alarmPc' = AlarmBranch(triggered, sum', threshold)
    /\ UNCHANGED <<threshold, triggered, alerts, alarmRecv, seen>>

\* out <- fmt.Sprintf(...) taken by the reader of out, then a.triggered = ...
AlarmEmit ==
    /\ alarmPc \in {"sendHigh", "sendNormal"}
    /\ alerts' = Append(alerts, AlertText(alarmPc))
    /\ triggered' = TriggeredAfter(alarmPc, triggered)
    /\ alarmPc' = "select"
    /\ UNCHANGED <<counter, threshold, sum, alarmTick, alarmRecv, seen>>

\* one second passes: the monotonic clock advances and the 1-second ticker
\* puts a tick in ticker.C (capacity 1; a tick is dropped when one is waiting).
\* The clock does not run further ahead of the counter than a uint64 holds
\* while the program runs; after the shutdown it runs on for as long as the
\* process lasts.
AlarmSecond ==
    /\ done \/ ((now - counter.currentTime) % Uint64) + Second < Uint64
    /\ now' = (now + Second) % Uint64
    /\ alarmTick' = TRUE
    /\ seen' = [d \in DOMAIN seen |-> IF d = 0 THEN 0 ELSE seen[d - 1]]
    /\ UNCHANGED <<counter, threshold, triggered, alarmPc, sum, alerts, alarmRecv>>

\* -------------------------------------- SpecAlarm: the worker and its test
\* TestAlarmWorker: NewAlarmWorker, then hits sent on worker.in, alerts read
\* from worker.out, and time passing.
InitAlarm ==
    /\ now = 0
    /\ \E w \in 1..MaxWindow, th \in 1..MaxThreshold : NewAlarmWorker(w, th)
    /\ TestStart
    /\ inputDone = FALSE
    /\ NoPipeline

\* worker.in <- &Hit{}
TestSendHit ==
    /\ ~inputDone
    /\ Len(alarmRecv) < MaxHits
    /\ AlarmObserve(ZeroHit)
    /\ UNCHANGED <<now, testVars, inputDone, pipeVars>>

\* the test sends no further hit
TestInputEnds ==
    /\ ~inputDone
    /\ inputDone' = TRUE
    /\ UNCHANGED <<now, counter, testVars, alarmVars, pipeVars>>

\* the ticker case of the worker
TestTick == AlarmTick /\ UNCHANGED <<now, testVars, inputDone, pipeVars>>

\* alert := <-worker.out
TestRecvAlert == AlarmEmit /\ UNCHANGED <<now, testVars, inputDone, pipeVars>>

\* time passes
TestSecond == AlarmSecond /\ UNCHANGED <<testVars, inputDone, pipeVars>>

NextAlarm == TestSendHit \/ TestInputEnds \/ TestTick \/ TestRecvAlert \/ TestSecond

SpecAlarm == InitAlarm /\ [][NextAlarm]_vars

\* time passes, the worker runs, and the test keeps reading worker.out
FairSpecAlarm ==
    SpecAlarm /\ WF_vars(TestSecond) /\ WF_vars(TestTick) /\ WF_vars(TestRecvAlert)

\* ------------------------------------------------------------ StatsWorker
\* the hits the log processor produces in Spec
Hits == {[uri |-> <<"/", "a", "/", "x">>, status |-> 200],
         [uri |-> <<"/">>, status |-> 404]}

\* integer division of Go: truncated toward zero
GoDiv(a, b) == IF a >= 0 THEN a \div b ELSE -((-a) \div b)

\* the index of the first "/" of uri at or after position j (0 when none)
RECURSIVE NextSlash(_, _)
NextSlash(uri, j) ==
    IF j > Len(uri) THEN 0
    ELSE IF uri[j] = "/" THEN j
    ELSE NextSlash(uri, j + 1)

\*   section = "^(?:/([^/]+))": the closing "/" not asked for
SectionKeyNoSlash(uri) ==
    IF Len(uri) >= 2 /\ uri[1] = "/" /\ uri[2] # "/"
    THEN SubSeq(uri, 2, IF NextSlash(uri, 3) = 0 THEN Len(uri) ELSE NextSlash(uri, 3) - 1)
    ELSE <<"/">>

\* section.FindStringSubmatch(hit.uri) with section = "^(?:/([^/]+)/)":
\* match[1] when the uri matches, "/" otherwise
SectionKey(uri) ==
    IF Len(uri) >= 3 /\ uri[1] = "/" /\ uri[2] # "/" /\ NextSlash(uri, 3) # 0
    THEN SubSeq(uri, 2, NextSlash(uri, 3) - 1)
    ELSE <<"/">>

\* s.sectionHits[skey] += 1
BumpSection(m, skey) ==
    IF skey \in DOMAIN m
    THEN [m EXCEPT ![skey] = @ + 1]
    ELSE [k \in DOMAIN m \cup {skey} |-> IF k = skey THEN 1 ELSE m[k]]

\*   status := hit.status/100 - 1: the classes counted from 0
BumpStatusZeroBased(sh, status) ==
    LET class == GoDiv(status, 100) - 1
    IN  IF class >= 0 /\ class < 6 THEN [sh EXCEPT ![class] = @ + 1] ELSE sh

\* status := hit.status / 100
\* if status >= 0 && status < len(s.statusHits) { s.statusHits[status] += 1 }
BumpStatus(sh, status) ==
    LET class == GoDiv(status, 100)
    IN  IF class >= 0 /\ class < 6 THEN [sh EXCEPT ![class] = @ + 1] ELSE sh

\* Pair{} with zero-valued fields
ZeroPair == [Key |-> <<>>, Value |-> 0]

\* sortMapByValue(m): i is never incremented, so every pair of the map is
\* written to p[0] and the last one of the iteration (any key: the order of a
\* map range is not specified) stays, the len(m)-1 other entries keep their
\* zero value; sort.Sort then orders the entries by Value.
SortMapByValue(m) ==
    IF DOMAIN m = {} THEN {<<>>}
    ELSE LET n == Cardinality(DOMAIN m)
         IN  {[i \in 1..n |-> IF i = pos THEN [Key |-> k, Value |-> m[k]] ELSE ZeroPair] :
                 <<k, pos>> \in {kp \in (DOMAIN m) \X (1..n) :
                                  /\ m[kp[1]] > 0 => kp[2] = n
                                  /\ m[kp[1]] < 0 => kp[2] = 1}}

\* fmt.Sprintf("'%s' section: %d hits", p.Key, p.Value), for each p
SectionLines(pl) ==
    [i \in 1..Len(pl) |-> [kind |-> "section", name |-> pl[i].Key, count |-> pl[i].Value]]

\* delete(s.sectionHits, p.Key), for each p
DeleteKeys(m, pl) ==
    [k \in DOMAIN m \ {pl[i].Key : i \in 1..Len(pl)} |-> m[k]]

\* the text of %d for a status class
Digit == <<"1", "2", "3", "4", "5">>

\*   for i, v := range s.statusHits { ... i+1, v ... }: the range taken over
\*   the whole slice, each label with the count of the class below
StatusLinesShifted(sh) ==
    [j \in 1..5 |-> [kind |-> "status", name |-> <<Digit[j], "x", "x">>, count |-> sh[j - 1]]]

\* for i, v := range s.statusHits[1:] { fmt.Sprintf("'%dxx': %d hits", i+1, v) ... }
StatusLines(sh) ==
    [j \in 1..5 |-> [kind |-> "status", name |-> <<Digit[j], "x", "x">>, count |-> sh[j]]]

\* ... s.statusHits[i] = 0 }  with i the index in s.statusHits[1:], 0 to 4
StatusAfterLoop(sh) == [j \in 0..5 |-> IF j <= 4 THEN 0 ELSE sh[j]]

\* fmt.Sprintf("'other': %d hits", s.statusHits[0]), read after the loop
OtherLine(sh) ==
    [kind |-> "other", name |-> <<"o", "t", "h", "e", "r">>, count |-> StatusAfterLoop(sh)[0]]

\*   s.totalHits = 0 moved before the total line is formatted
TotalLineAfterReset(total) ==
    [kind |-> "total", name |-> <<"t", "o", "t", "a", "l">>, count |-> 0]

\* fmt.Sprintf("total: %d hits (%.02f/sec)", s.totalHits, ...); the rate is
\* a function of the count and of the interval and is not kept
TotalLine(total) ==
    [kind |-> "total", name |-> <<"t", "o", "t", "a", "l">>, count |-> total]

\* NewStatsWorker(interval, done, logger), before the goroutine runs
NewStatsWorker(iv) ==
    /\ statsPc = "select"
    /\ interval = iv
    /\ totalHits = 0
    /\ statusHits = [i \in 0..5 |-> 0]
    /\ sectionHits = <<>>
    /\ statsTick = FALSE
    /\ statsWait = iv
    /\ statsOut = <<>>
    /\ statsRecv = <<>>

\* case hit := <-s.in
StatsObserve(hit) ==
    /\ statsPc = "select"
    /\ sectionHits' = BumpSection(sectionHits, SectionKey(hit.uri))
    /\ statusHits' = BumpStatus(statusHits, hit.status)
    /\ totalHits' = totalHits + 1
    /\ statsRecv' = Append(statsRecv, hit)
    /\ UNCHANGED <<statsPc, interval, statsTick, statsWait, statsOut>>

\* case <-ticker.C: the snapshot is built, the counts are reset and the
\* goroutine stops at out <- stats
StatsTick ==
    /\ statsPc = "select"
    /\ statsTick
    /\ statsTick' = FALSE
    /\ \E pl \in SortMapByValue(sectionHits) :
          /\ statsOut' = SectionLines(pl) \o StatusLines(statusHits)
                            \o <<OtherLine(statusHits), TotalLine(totalHits)>>
          /\ sectionHits' = DeleteKeys(sectionHits, pl)
    /\ statusHits' = [StatusAfterLoop(statusHits) EXCEPT ![0] = 0]
    /\ totalHits' = 0
    /\ statsPc' = "send"
    /\ UNCHANGED <<interval, statsWait, statsRecv>>

\* out <- stats, taken by the reader of out; the case ends and with it the
\* scope of stats
StatsEmit ==
    /\ statsPc = "send"
    /\ statsPc' = "select"
    /\ statsOut' = <<>>
    /\ UNCHANGED <<interval, totalHits, statusHits, sectionHits,
                   statsTick, statsWait, statsRecv>>

\* one second passes for the ticker of the StatsWorker, which fires every
\* interval seconds (ticker.C has capacity 1)
StatsSecond ==
    /\ statsWait' = IF statsWait = 1 THEN interval ELSE statsWait - 1
    /\ statsTick' = (statsTick \/ statsWait = 1)
    /\ UNCHANGED <<statsPc, interval, totalHits, statusHits, sectionHits,
                   statsOut, statsRecv>>

\* --------------------------------------------------------- the pipeline
\* main: NewLogProcessor, go logProcessor.Run, NewStatsWorker, NewAlarmWorker,
\* the dispatch goroutine and DrawUi
Init ==
    /\ now = 0
    /\ \E w \in 1..PipeWindow, th \in 1..PipeThreshold : NewAlarmWorker(w, th)
    /\ \E iv \in 1..PipeInterval : NewStatsWorker(iv)
    /\ TestStart
    /\ inputDone = FALSE
    /\ srcPc = "select" /\ srcHit = ZeroHit /\ srcSeq = <<>>
    /\ dispPc = "recv" /\ dispHit = ZeroHit /\ dispSeq = <<>>
    /\ uiPc = "select" /\ uiStats = <<>> /\ reported = 0 /\ done = FALSE

\* LogProcessor.Run, case line := <-l.stream.Lines, for a line that parses
\* (any other line is logged and skipped): the goroutine stops at out <- &Hit{...}
SourceLine ==
    /\ srcPc = "select"
    /\ ~inputDone
    /\ Len(srcSeq) < MaxLines
    /\ \E h \in Hits :
          /\ srcHit' = h
          /\ srcSeq' = Append(srcSeq, h)
    /\ srcPc' = "send"
    /\ UNCHANGED <<now, counter, testVars, alarmVars, inputDone,
                   dispVars, statsVars, uiVars>>

\* the log file stops growing
InputEnds ==
    /\ ~inputDone
    /\ inputDone' = TRUE
    /\ UNCHANGED <<now, counter, testVars, alarmVars, pipeVars>>

\* for hit := range hits, with out <- &Hit{...} of LogProcessor.Run
DispRecv ==
    /\ srcPc = "send"
    /\ dispPc = "recv"
    /\ dispHit' = srcHit
    /\ dispSeq' = Append(dispSeq, srcHit)
    /\ dispPc' = "toStats"
    /\ srcPc' = "select"
    /\ UNCHANGED <<now, counter, testVars, alarmVars, inputDone,
                   srcHit, srcSeq, statsVars, uiVars>>

\* the statement of the loop body that follows statsWorker.in <- hit
\*   none: alarmWorker.in <- hit left out
AfterStatsNone == "recv"

\*   alarmWorker.in <- hit
AfterStats == "toAlarm"

\* the value sent on alarmWorker.in
\*   the hit the log processor is sending next
HitForAlarmNext == srcHit

\*   the loop variable hit
HitForAlarm == dispHit

\* statsWorker.in <- hit, with case hit := <-s.in of the StatsWorker
DispToStats ==
    /\ dispPc = "toStats"
    /\ StatsObserve(dispHit)
    /\ dispPc' = AfterStats
    /\ UNCHANGED <<now, counter, testVars, alarmVars, inputDone,
                   srcVars, dispHit, dispSeq, uiVars>>

\* alarmWorker.in <- hit, with case <-a.in of the AlarmWorker
DispToAlarm ==
    /\ dispPc = "toAlarm"
    /\ AlarmObserve(HitForAlarm)
    /\ dispPc' = "recv"
    /\ UNCHANGED <<now, testVars, inputDone, srcVars, dispHit, dispSeq,
                   statsVars, uiVars>>

\* the ticker case of the StatsWorker
PipeStatsTick ==
    /\ StatsTick
    /\ UNCHANGED <<now, counter, testVars, alarmVars, inputDone,
                   srcVars, dispVars, uiVars>>

\* the ticker case of the AlarmWorker
PipeAlarmTick ==
    /\ AlarmTick
    /\ UNCHANGED <<now, testVars, inputDone, pipeVars>>

\* update of DrawUi, case stats := <-stat: sl.Items = stats
UiStats ==
    /\ uiPc = "select"
    /\ StatsEmit
    /\ uiStats' = statsOut
    /\ reported' = reported + statsOut[Len(statsOut)].count
    /\ UNCHANGED <<now, counter, testVars, alarmVars, inputDone,
                   srcVars, dispVars, uiPc, done>>

\*   the case alert := <-alert left out of the select of update
UiAlertNotRead ==
    /\ uiPc = "exit"
    /\ AlarmEmit
    /\ UNCHANGED <<now, testVars, inputDone, pipeVars>>

\* update of DrawUi, case alert := <-alert: al.Items = append([]string{alert}, al.Items...)
UiAlert ==
    /\ uiPc = "select"
    /\ AlarmEmit
    /\ UNCHANGED <<now, testVars, inputDone, pipeVars>>

\* one second passes for the clock and for both tickers.  A goroutine that
\* can take a tick or hand over its output does so within the second: time
\* passes when no such step is waiting.
PipeSecond ==
    /\ ~ENABLED PipeStatsTick
    /\ ~ENABLED PipeAlarmTick
    /\ ~ENABLED UiStats
    /\ ~ENABLED UiAlert
    /\ AlarmSecond
    /\ StatsSecond
    /\ UNCHANGED <<testVars, inputDone, srcVars, dispVars, uiVars>>

Next ==
    \/ SourceLine \/ InputEnds \/ DispRecv \/ DispToStats \/ DispToAlarm
    \/ PipeStatsTick \/ PipeAlarmTick \/ UiStats \/ UiAlert \/ PipeSecond

Spec == Init /\ [][Next]_vars

\* time passes; every goroutine that can run does; a select whose cases are
\* ready again and again takes each of them (the choice among the ready
\* cases of a select is random)
FairSpec ==
    /\ Spec
    /\ WF_vars(PipeSecond)
    /\ WF_vars(DispRecv)
    /\ SF_vars(DispToStats)
    /\ SF_vars(DispToAlarm)
    /\ WF_vars(PipeStatsTick)
    /\ WF_vars(PipeAlarmTick)
    /\ WF_vars(UiStats)
    /\ WF_vars(UiAlert)

\* ------------------------------------------------- the StatsWorker alone
\* The StatsWorker between a sender on its in channel and the reader of its
\* out channel, as main wires it, with hits of every status class.
StatsHits == {[uri |-> <<"/", "a", "/", "x">>, status |-> 200],
              [uri |-> <<"/", "b", "/">>, status |-> 404],
              [uri |-> <<"/">>, status |-> 503],
              [uri |-> <<"/", "a", "/">>, status |-> 50],
              [uri |-> <<"/">>, status |-> 999],
              [uri |-> <<"/", "b", "/", "y">>, status |-> -100]}

InitStats ==
    /\ now = 0
    /\ counter = NewCircularCounter(1, 0)
    /\ TestStart
    /\ NoAlarmWorker
    /\ inputDone = FALSE
    /\ srcPc = "select" /\ srcHit = ZeroHit /\ srcSeq = <<>>
    /\ dispPc = "recv" /\ dispHit = ZeroHit /\ dispSeq = <<>>
    /\ \E iv \in 1..MaxStatsInterval : NewStatsWorker(iv)
    /\ uiPc = "select" /\ uiStats = <<>> /\ reported = 0 /\ done = FALSE

\* statsWorker.in <- hit, with case hit := <-s.in of the StatsWorker
StatsSendHit ==
    /\ Len(statsRecv) < MaxStatsHits
    /\ \E h \in StatsHits : StatsObserve(h)
    /\ UNCHANGED <<now, counter, testVars, alarmVars, inputDone,
                   srcVars, dispVars, uiVars>>

\* one second passes for the ticker of the StatsWorker
StatsTestSecond ==
    /\ StatsSecond
    /\ UNCHANGED <<now, counter, testVars, alarmVars, inputDone,
                   srcVars, dispVars, uiVars>>

NextStats == StatsSendHit \/ PipeStatsTick \/ UiStats \/ StatsTestSecond

SpecStats == InitStats /\ [][NextStats]_vars

\* ------------------------------------------------- the section of a URI
\* The dispatch goroutine holds a hit of any URI and hands it to the
\* StatsWorker.
Uris == UNION {[1..n -> {"/", "a", "b"}] : n \in 0..MaxUri}

InitSection ==
    /\ now = 0
    /\ NewAlarmWorker(1, 1)
    /\ NewStatsWorker(1)
    /\ TestStart
    /\ inputDone = FALSE
    /\ \E u \in Uris :
          /\ dispHit = [uri |-> u, status |-> 200]
          /\ srcHit = dispHit
          /\ srcSeq = <<dispHit>>
          /\ dispSeq = <<dispHit>>
    /\ srcPc = "select"
    /\ dispPc = "toStats"
    /\ uiPc = "select" /\ uiStats = <<>> /\ reported = 0 /\ done = FALSE

SpecSection == InitSection /\ [][DispToStats]_vars

\* ------------------------------------- SpecConfig: any value of the flags
\* main hands -i, -w and -t to NewStatsWorker and NewAlarmWorker as they
\* are; neither main nor the constructors test them.  A run-time panic of a
\* goroutine ends the process: "panic" in lastCall (main), alarmPc or
\* statsPc.
ConfigParams == (0 - ConfigSpan)..ConfigSpan

Crashed == lastCall = "panic" \/ alarmPc = "panic" \/ statsPc = "panic"

\* NewStatsWorker(iv): the goroutine is at time.NewTicker ("start") when
\* that call is going to panic, in its select otherwise
ConfigStatsWorker(iv) ==
    /\ statsPc = IF iv >= 1 THEN "select" ELSE "start"
    /\ interval = iv
    /\ totalHits = 0
    /\ statusHits = [i \in 0..5 |-> 0]
    /\ sectionHits = <<>>
    /\ statsTick = FALSE
    /\ statsWait = iv
    /\ statsOut = <<>>
    /\ statsRecv = <<>>

\* main after NewStatsWorker and NewAlarmWorker; make([]int, window) of
\* NewCircularCounter panics in main for a negative window
InitConfig ==
    /\ now = 0
    /\ sumResult = 0
    /\ addedAt = [t \in 0..(MaxClock * Second) |-> 0]
    /\ inputDone = FALSE
    /\ srcPc = "select" /\ srcHit = ZeroHit /\ srcSeq = <<>>
    /\ dispPc = "recv" /\ dispHit = ZeroHit /\ dispSeq = <<>>
    /\ uiPc = "select" /\ uiStats = <<>> /\ reported = 0 /\ done = FALSE
    /\ \E w \in ConfigParams, th \in ConfigParams, iv \in ConfigParams :
          /\ ConfigStatsWorker(iv)
          /\ IF w < 0
             THEN /\ lastCall = "panic"
                  /\ counter = NewCircularCounter(0, 0)
                  /\ NoAlarmWorker
             ELSE /\ lastCall = "new"
                  /\ NewAlarmWorker(w, th)

\* ticker := time.NewTicker(...) of the StatsWorker with interval <= 0:
\* panic (non-positive interval for NewTicker)
ConfigStatsStart ==
    /\ ~Crashed
    /\ statsPc = "start"
    /\ statsPc' = "panic"
    /\ UNCHANGED <<now, counter, testVars, alarmVars, inputDone, srcVars, dispVars,
                   interval, totalHits, statusHits, sectionHits,
                   statsTick, statsWait, statsOut, statsRecv, uiVars>>

\* worker.in <- &Hit{}: with no bucket, Add panics (index out of range, or
\* division by zero in Forward)
ConfigHit ==
    /\ ~Crashed
    /\ alarmPc = "select"
    /\ Len(alarmRecv) < MaxHits
    /\ IF Window(counter) = 0
       THEN /\ alarmPc' = "panic"
            /\ alarmRecv' = Append(alarmRecv, ZeroHit)
            /\ UNCHANGED <<counter, threshold, triggered, sum, alarmTick, alerts, seen>>
       ELSE AlarmObserve(ZeroHit)
    /\ UNCHANGED <<now, testVars, inputDone, pipeVars>>

\* the ticker case of the AlarmWorker: with no bucket, Forward panics
\* (i % len(c.buckets) with len 0) one second or more after the construction
ConfigTick ==
    /\ ~Crashed
    /\ alarmPc = "select"
    /\ alarmTick
    /\ IF Window(counter) = 0
       THEN /\ alarmPc' = "panic"
            /\ alarmTick' = FALSE
            /\ UNCHANGED <<counter, threshold, triggered, sum, alerts, alarmRecv, seen>>
       ELSE AlarmTick
    /\ UNCHANGED <<now, testVars, inputDone, pipeVars>>

\* the update goroutine of DrawUi reads an alert
ConfigRecvAlert == ~Crashed /\ UiAlert

\* the ticker case of the StatsWorker
ConfigStatsTick == ~Crashed /\ PipeStatsTick

\* the update goroutine of DrawUi reads a snapshot
ConfigRecvStats == ~Crashed /\ UiStats

\* one second passes, both tickers created
ConfigSecond ==
    /\ ~Crashed
    /\ statsPc # "start"
    /\ AlarmSecond
    /\ StatsSecond
    /\ UNCHANGED <<testVars, inputDone, srcVars, dispVars, uiVars>>

NextConfig ==
    \/ ConfigStatsStart \/ ConfigHit \/ ConfigTick \/ ConfigRecvAlert
    \/ ConfigStatsTick \/ ConfigRecvStats \/ ConfigSecond

SpecConfig == InitConfig /\ [][NextConfig]_vars

\* ------------------------------------------------------------- shutdown
\* The goroutines are followed for as long as the process lasts: main
\* returns once done is closed, which ends the process and runs no deferred
\* call of the other goroutines.

\* ui.Handle("/sys/kbd/q"): close(done); ui.StopLoop()
Shutdown ==
    /\ ~done
    /\ done' = TRUE
    /\ UNCHANGED <<now, counter, testVars, alarmVars, inputDone,
                   srcVars, dispVars, statsVars, uiPc, uiStats, reported>>

\* LogProcessor.Run, case <-done: return nil
SourceExit ==
    /\ done
    /\ srcPc = "select"
    /\ srcPc' = "exit"
    /\ UNCHANGED <<now, counter, testVars, alarmVars, inputDone,
                   srcHit, srcSeq, dispVars, statsVars, uiVars>>

\* StatsWorker, case <-done: return, with the deferred ticker.Stop() and close(out)
StatsExit ==
    /\ done
    /\ statsPc = "select"
    /\ statsPc' = "exit"
    /\ UNCHANGED <<now, counter, testVars, alarmVars, inputDone, srcVars, dispVars,
                   interval, totalHits, statusHits, sectionHits,
                   statsTick, statsWait, statsOut, statsRecv, uiVars>>

\* AlarmWorker, case <-done: return, with the deferred ticker.Stop() and close(out)
AlarmExit ==
    /\ done
    /\ alarmPc = "select"
    /\ alarmPc' = "exit"
    /\ UNCHANGED <<now, counter, testVars, threshold, triggered, sum, alarmTick,
                   alerts, alarmRecv, seen, inputDone, pipeVars>>

\* update of DrawUi, case <-done: return
UiExit ==
    /\ done
    /\ uiPc = "select"
    /\ uiPc' = "exit"
    /\ UNCHANGED <<now, counter, testVars, alarmVars, inputDone,
                   srcVars, dispVars, statsVars, uiStats, reported, done>>

NextShutdown ==
    \/ Next
    \/ Shutdown \/ SourceExit \/ StatsExit \/ AlarmExit \/ UiExit

SpecShutdown == Init /\ [][NextShutdown]_vars

\* as FairSpec; a select whose done case is ready again and again takes it
FairSpecShutdown ==
    /\ SpecShutdown
    /\ WF_vars(PipeSecond)
    /\ WF_vars(DispRecv)
    /\ SF_vars(DispToStats)
    /\ SF_vars(DispToAlarm)
    /\ WF_vars(PipeStatsTick)
    /\ WF_vars(PipeAlarmTick)
    /\ SF_vars(UiStats)
    /\ SF_vars(UiAlert)
    /\ SF_vars(SourceExit)
    /\ SF_vars(StatsExit)
    /\ SF_vars(AlarmExit)
    /\ SF_vars(UiExit)

\* ------------------------------------------------ claims on the counter
\* total of the values added at readings a with t - W seconds < a <= t
RECURSIVE AddedSince(_, _)
AddedSince(from, t) ==
    IF from > t THEN 0
    ELSE (IF from >= 0 THEN addedAt[from] ELSE 0) + AddedSince(from + 1, t)

WindowTotal == AddedSince(now - Window(counter) * Second + 1, now)

\* every value added so far was added at reading 0
OnlyAddedAtZero == \A t \in 1..(MaxClock * Second) : addedAt[t] = 0

\* nothing was added at a reading a with now - W seconds < a < now
IdleBeforeNow == AddedSince(now - Window(counter) * Second + 1, now - 1) = 0

\* C1: Sum() at reading t returns exactly the total of the values added at
\* readings a with t - W seconds < a <= t.
C1_SumIsWindowTotal == lastCall = "sum" => sumResult = WindowTotal

\* C2: after values were added at reading 0 only and the clock advanced by
\* d whole seconds with 0 <= d < W, Sum() returns what was added.
C2_StillInsideWindow ==
    (lastCall = "sum" /\ OnlyAddedAtZero /\ now < Window(counter) * Second)
        => sumResult = addedAt[0]

\* C3: when nothing was added during the W seconds that precede the current
\* reading, Sum() returns what was added at the current reading: 0 when
\* nothing was, v right after an Add(v) that follows the idle period.
C3_IdleWindowIsFresh ==
    (lastCall = "sum" /\ IdleBeforeNow) => sumResult = addedAt[now]

\* witness of C3: values added W seconds ago or more, an Add at the current
\* reading, and Sum() returning that last value only
C3_Witness ==
    /\ lastCall = "sum"
    /\ IdleBeforeNow
    /\ Window(counter) >= 2
    /\ AddedSince(0, now - Window(counter) * Second) > 0
    /\ addedAt[now] > 0
    /\ sumResult = addedAt[now]

\* -------------------------------------------- claims on the AlarmWorker
\* the ticker case ran: it alone takes the tick out of ticker.C
TickTaken == alarmTick /\ ~alarmTick'

\* the hits received during the trailing W whole seconds
SeenInWindow == SumUpTo(seen, Window(counter) - 1)

\* C4: the alerts written to out alternate between "High traffic" and
\* "back to normal", starting with "High traffic".
C4_AlertsAlternate ==
    \A i \in 1..Len(alerts) :
        alerts[i] = IF i % 2 = 1 THEN "High traffic" ELSE "back to normal"

\* witness of C4: a third alert was written
C4_Witness == Len(alerts) >= 3 /\ alerts[3] = "High traffic"

\* C5: a tick sends "High traffic" iff triggered was false and sum >= threshold,
\* "back to normal" iff triggered was true and sum < threshold, nothing
\* otherwise; an alert is written only by the send a tick decided, one per
\* tick; and when the tick is over triggered is true iff sum >= threshold.
C5_TickDecision ==
    [][ /\ TickTaken =>
              /\ (alarmPc' = "sendHigh") <=> (~triggered /\ sum' >= threshold)
              /\ (alarmPc' = "sendNormal") <=> (triggered /\ sum' < threshold)
              /\ alerts' = alerts
        /\ alerts' # alerts =>
              /\ alarmPc \in {"sendHigh", "sendNormal"}
              /\ alarmPc' = "select"
              /\ alerts' = Append(alerts, IF alarmPc = "sendHigh"
                                          THEN "High traffic" ELSE "back to normal")
        /\ (alarmPc' = "select" /\ (TickTaken \/ alarmPc # "select")) =>
              (triggered' <=> sum' >= threshold)
      ]_vars

\* witness of C5: a tick found the sum back under the threshold while triggered
C5_Witness ==
    /\ alarmPc = "sendNormal"
    /\ triggered
    /\ sum < threshold
    /\ Len(alerts) >= 1

\* C6: in state Normal, a tick at which at least threshold hits were received
\* within the trailing W whole seconds sends "High traffic".
C6_HighWhenWindowFull ==
    [][ (TickTaken /\ ~triggered /\ SeenInWindow >= threshold)
            => alarmPc' = "sendHigh" ]_vars

\* C7: once Alarmed with the input ended, exactly one more alert is written,
\* "back to normal", and the worker stays Normal.
C7_BackToNormal ==
    \A k \in 1..MaxHits :
        (triggered /\ inputDone /\ Len(alerts) = 2 * k - 1)
            ~> [](/\ ~triggered
                  /\ alarmPc = "select"
                  /\ Len(alerts) = 2 * k
                  /\ alerts[2 * k] = "back to normal")

\* witness of C7: the worker went back to Normal after the input ended
C7_Witness ==
    /\ inputDone
    /\ ~triggered
    /\ alarmPc = "select"
    /\ Len(alerts) >= 2
    /\ alerts[Len(alerts)] = "back to normal"

\* ---------------------------------------------- claims on the dispatch
\* s is a prefix of t
IsPrefix(s, t) == Len(s) <= Len(t) /\ SubSeq(t, 1, Len(s)) = s

\* every hit parsed was received once by both workers, and counted in the
\* total line of one snapshot
AllDelivered ==
    /\ statsRecv = srcSeq
    /\ alarmRecv = srcSeq
    /\ reported = Len(srcSeq)

\* C8: without shutdown and with the sink reading both out channels, once the
\* input has ended with N hits, both workers end up having received the N
\* hits, once each, and the totals of the snapshots add up to N.
C8_NoEventLoss == (inputDone /\ ~done) ~> [](AllDelivered)

\* witness of C8: all the hits of a full input were delivered and reported
C8_Witness ==
    /\ inputDone
    /\ Len(srcSeq) = MaxLines
    /\ AllDelivered

\* C9: the workers have received only hits the dispatcher has read, and the
\* dispatcher reads hit k+1 after both workers received hit k: the
\* StatsWorker is at most one hit ahead of the AlarmWorker.
C9_HandOverBeforeNextRead ==
    /\ Len(statsRecv) - Len(alarmRecv) \in {0, 1}
    /\ Len(statsRecv) <= Len(dispSeq)
    /\ Len(dispSeq) - Len(alarmRecv) \in {0, 1}

\* witness of C9: the second hit is with the StatsWorker and not yet with
\* the AlarmWorker
C9_Witness ==
    /\ Len(dispSeq) = 2
    /\ Len(statsRecv) = 2
    /\ Len(alarmRecv) = 1

\* C10: the sequence received by the AlarmWorker is a prefix of the one
\* received by the StatsWorker, itself a prefix of the sequence read by the
\* dispatcher, itself a prefix of the sequence of the source.
C10_SameOrder ==
    /\ IsPrefix(alarmRecv, statsRecv)
    /\ IsPrefix(statsRecv, dispSeq)
    /\ IsPrefix(dispSeq, srcSeq)

\* witness of C10: two different hits went through both workers
C10_Witness ==
    /\ Len(alarmRecv) = 2
    /\ alarmRecv[1] # alarmRecv[2]
    /\ alarmRecv = statsRecv

\* ------------------------------------------------- claims on the shutdown
\* the dispatch goroutine is still in its loop
DispatcherRunning == dispPc \in {"recv", "toStats", "toAlarm"}

\* C11: once done is closed the dispatch goroutine eventually terminates,
\* whether it waits on the hits channel or is blocked handing a hit to a
\* worker.
C11_DispatcherTerminates == done ~> ~DispatcherRunning

\* C12: once done is closed the StatsWorker and the AlarmWorker each
\* eventually return (closing out), from every state they are in when done
\* is closed, a send on out that the UI no longer reads included.
C12_WorkersTerminate == done ~> (statsPc = "exit" /\ alarmPc = "exit")

\* the StatsWorker takes the ticker case
StatsTickTaken == statsTick /\ ~statsTick'

\* C13: after done is closed no worker takes another hit or another tick
\* (every output written later comes from such a tick): the done case wins
\* over a pending hit and over a pending tick.
C13_ShutdownFirst ==
    [][done => /\ statsRecv' = statsRecv
               /\ alarmRecv' = alarmRecv
               /\ ~StatsTickTaken
               /\ ~TickTaken]_vars

\* ---------------------------------------------- claims on the StatsWorker
\* the section lines of a snapshot
SectionLinesOf(out) == SelectSeq(out, LAMBDA l : l.kind = "section")

\* C14: the snapshot of a tick has exactly one section line for each key of
\* sectionHits, with the key and its count, and the section lines are in
\* non-decreasing order of count.
C14_SectionsReported ==
    [][StatsTickTaken =>
         LET sl == SectionLinesOf(statsOut')
         IN  /\ Len(sl) = Cardinality(DOMAIN sectionHits)
             /\ \A k \in DOMAIN sectionHits :
                   \E i \in 1..Len(sl) : sl[i].name = k /\ sl[i].count = sectionHits[k]
             /\ \A i \in 1..(Len(sl) - 1) : sl[i].count <= sl[i + 1].count]_vars

\* C15: after every tick of the StatsWorker the sectionHits map is empty.
C15_SectionsEmptied == [][StatsTickTaken => DOMAIN sectionHits' = {}]_vars

\* C16: after every tick of the StatsWorker the six status slots are 0.
C16_StatusSlotsReset ==
    [][StatsTickTaken => \A i \in 0..5 : statusHits'[i] = 0]_vars

\* the count of the total line of a snapshot, its last line
TotalOf(out) == out[Len(out)].count

\* C17: the total line of each snapshot counts the hits received since the
\* previous snapshot (all the hits received, less those the earlier
\* snapshots counted), totalHits is 0 right after the tick, and a hit is
\* received only while the worker waits in its select, never between the
\* building of a snapshot and the reset.
C17_TotalCountsEachHitOnce ==
    [][/\ StatsTickTaken =>
             /\ TotalOf(statsOut') = Len(statsRecv) - reported
             /\ totalHits' = 0
       /\ statsRecv' # statsRecv =>
             /\ statsPc = "select" /\ statsPc' = "select"
             /\ totalHits' = totalHits + 1]_vars

\* the second snapshot is waiting on out: it counts the two hits received
\* after the first snapshot, which counted one
C17_Witness ==
    /\ statsPc = "send"
    /\ Len(statsRecv) = 3
    /\ reported = 1
    /\ TotalOf(statsOut) = 2
    /\ totalHits = 0

\* the StatsWorker receives a hit; the hit received
HitTaken == Len(statsRecv') = Len(statsRecv) + 1
TakenHit == statsRecv'[Len(statsRecv')]

\* the class 1..5 of a status from 100 to 599
ClassOf(status) == CHOOSE c \in 1..5 : c * 100 <= status /\ status < (c + 1) * 100

\* C18: Observe of a hit whose status is of class 1..5 adds 1 to the slot of
\* that class and leaves the five other slots as they are.
C18_ClassSlotBumped ==
    [][(HitTaken /\ TakenHit.status \in 100..599) =>
          \A i \in 0..5 :
             statusHits'[i] = IF i = ClassOf(TakenHit.status)
                              THEN statusHits[i] + 1 ELSE statusHits[i]]_vars

\* a 200 then a 404 were observed
C18_Witness ==
    /\ Len(statsRecv) = 2
    /\ statsRecv[1].status = 200
    /\ statsRecv[2].status = 404
    /\ statusHits = [i \in 0..5 |-> IF i \in {2, 4} THEN 1 ELSE 0]

\* C19: Observe of a hit whose status is of no class 1..5 adds 1 to slot 0
\* ('other') and leaves the slots 1xx to 5xx as they are.
C19_OtherSlotBumped ==
    [][(HitTaken /\ TakenHit.status \notin 100..599) =>
          \A i \in 0..5 :
             statusHits'[i] = IF i = 0 THEN statusHits[i] + 1 ELSE statusHits[i]]_vars

\* the count of the 'other' line of a snapshot
OtherOf(out) == SelectSeq(out, LAMBDA l : l.kind = "other")[1].count

\* C20: the 'other' line of a snapshot carries the count of slot 0 at the
\* tick, the number of hits counted there since the previous snapshot.
C20_OtherLineCount == [][StatsTickTaken => OtherOf(statsOut') = statusHits[0]]_vars

\* C21: every tick of the StatsWorker, one without events included, leaves
\* the worker sending one snapshot made of the section lines, then the five
\* lines 1xx, 2xx, 3xx, 4xx, 5xx in that order, each with the count of its
\* own class, then the 'other' line, then the total line, which is the last:
\* seven lines after the section lines.
C21_SnapshotLayout ==
    [][StatsTickTaken =>
         LET out == statsOut'
             n   == Len(SectionLinesOf(out))
         IN  /\ statsPc' = "send"
             /\ Len(out) = n + 7
             /\ \A i \in 1..n : out[i].kind = "section"
             /\ \A j \in 1..5 :
                   /\ out[n + j].kind = "status"
                   /\ out[n + j].name = <<(<<"1", "2", "3", "4", "5">>)[j], "x", "x">>
                   /\ out[n + j].count = statusHits[j]
             /\ out[n + 6].kind = "other"
             /\ out[n + 7].kind = "total"]_vars

\* a snapshot with two section lines, after one 2xx hit and one 4xx hit
C21_Witness ==
    /\ statsPc = "send"
    /\ Len(statsOut) = 9
    /\ statsOut[2].kind = "section"
    /\ statsOut[4].count = 1
    /\ statsOut[6].count = 1
    /\ statsOut[9].kind = "total"

\* the counts of the status lines of a snapshot, added up
StatusTotalOf(out) ==
    LET st == SelectSeq(out, LAMBDA l : l.kind = "status")
    IN  st[1].count + st[2].count + st[3].count + st[4].count + st[5].count

\* C28: in every snapshot the counts of the lines 1xx to 5xx and of the
\* 'other' line add up to the count of the total line.
C28_ClassesAddUpToTotal ==
    [][StatsTickTaken =>
          StatusTotalOf(statsOut') + OtherOf(statsOut') = TotalOf(statsOut')]_vars

\* the sum of the counts of the keys ks of the map m
RECURSIVE MapTotal(_, _)
MapTotal(m, ks) ==
    IF ks = {} THEN 0
    ELSE LET k == CHOOSE x \in ks : TRUE
         IN  m[k] + MapTotal(m, ks \ {k})

\* C29: whenever the StatsWorker is between two iterations of its select,
\* totalHits is the sum of the counts of sectionHits.
C29_TotalIsSectionSum ==
    statsPc = "select" => totalHits = MapTotal(sectionHits, DOMAIN sectionHits)

\* ------------------------------------------- claim on the section of a URI
\* uri starts with "/", then one or more characters other than "/", then
\* the "/" at position n
Enclosed(uri, n) ==
    /\ uri[1] = "/"
    /\ uri[n] = "/"
    /\ \A i \in 2..(n - 1) : uri[i] # "/"

\* the text between the first two "/" of such a uri, "/" for any other uri
ExpectedSection(uri) ==
    IF \E n \in 3..Len(uri) : Enclosed(uri, n)
    THEN SubSeq(uri, 2, (CHOOSE n \in 3..Len(uri) : Enclosed(uri, n)) - 1)
    ELSE <<"/">>

\* C23: the section counted for a hit is the text between the first two "/"
\* of its URI when the URI starts with "/", one or more other characters and
\* "/"; it is "/" for every other URI.
C23_SectionOfUri ==
    Len(statsRecv) = 1 =>
        /\ DOMAIN sectionHits = {ExpectedSection(statsRecv[1].uri)}
        /\ sectionHits[ExpectedSection(statsRecv[1].uri)] = 1

\* the hit of URI /ab/ was counted under ab
C23_Witness ==
    /\ Len(statsRecv) = 1
    /\ statsRecv[1].uri = <<"/", "a", "b", "/">>
    /\ DOMAIN sectionHits = {<<"a", "b">>}

\* ------------------------------------- claims on the steps of the counter
\* whole seconds elapsed since the counter last moved (the clock of
\* SpecCounter and SpecFine does not wrap)
ElapsedSteps == (now - counter.currentTime) \div Second

\* the total of the buckets of a counter
BucketTotal(c) == SumUpTo(c.buckets, Window(c) - 1)

\* C24: Forward over steps whole seconds, 1 <= steps < W, zeroes the steps
\* buckets that follow the cursor and no other, moves the cursor by steps
\* modulo W and sets currentTime to the reading; with steps >= W it zeroes
\* every bucket.  Forward is observed through Sum().
C24_ForwardFrame ==
    [][(lastCall' = "sum" /\ ElapsedSteps >= 1) =>
          LET W     == Window(counter)
              cur   == counter.currentIndex
              steps == ElapsedSteps
          IN  /\ \A i \in 0..(W - 1) :
                    counter'.buckets[i] =
                        IF steps >= W \/ \E j \in 1..steps : i = (cur + j) % W
                        THEN 0 ELSE counter.buckets[i]
              /\ steps < W => /\ counter'.currentIndex = (cur + steps) % W
                               /\ counter'.currentTime = now]_vars

\* C25: less than one second after currentTime, Sum() leaves the counter as
\* it is and returns the total of the buckets, so that a second Sum() at the
\* same reading returns the same value, and Add(v) changes the bucket of the
\* cursor only, raising the total of the buckets (the next Sum()) by v.
C25_NoOpWithinSecond ==
    [][/\ (lastCall' = "sum" /\ now - counter.currentTime < Second) =>
             /\ counter' = counter
             /\ sumResult' = BucketTotal(counter)
       /\ (lastCall = "sum" /\ lastCall' = "sum") =>
             /\ sumResult' = sumResult
             /\ counter' = counter
       /\ (lastCall' = "add" /\ addedAt' # addedAt /\ now - counter.currentTime < Second) =>
             /\ counter' = [counter EXCEPT !.buckets[counter.currentIndex] =
                                              @ + addedAt'[now] - addedAt[now]]
             /\ BucketTotal(counter') =
                   BucketTotal(counter) + addedAt'[now] - addedAt[now]]_vars

\* Sum() at a reading half a second after the counter last moved, a value
\* having been added at that reading
C25_Witness ==
    /\ lastCall = "sum"
    /\ now - counter.currentTime = 1
    /\ addedAt[now] > 0
    /\ AddedSince(0, now - 1) > 0
    /\ sumResult = addedAt[now] + AddedSince(0, now - 1)

\* C26: the counter always has its W buckets, indexed from 0, a cursor on
\* one of them, a currentTime not after the clock, which never decreases,
\* and no negative bucket.
C26_CounterWellFormed ==
    /\ [](/\ Window(counter) >= 1
          /\ DOMAIN counter.buckets = 0..(Window(counter) - 1)
          /\ counter.currentIndex \in DOMAIN counter.buckets
          /\ counter.currentTime <= now
          /\ \A i \in DOMAIN counter.buckets : counter.buckets[i] >= 0)
    /\ [][/\ DOMAIN counter'.buckets = DOMAIN counter.buckets
          /\ counter'.currentTime >= counter.currentTime]_vars

\* the cursor came back to bucket 0 of a window of 3 seconds, with a value
\* in the window
C26_Witness ==
    /\ Window(counter) = 3
    /\ counter.currentIndex = 0
    /\ counter.currentTime = 3 * Second
    /\ counter.buckets[0] > 0

\* C27: whatever the instants of the calls, Sum() at reading t includes no
\* value added W seconds before t or earlier: it is at most the total of the
\* values added at readings a with t - a < W seconds.
C27_NoExpiredValue == lastCall = "sum" => sumResult <= WindowTotal

\* ------------------------------------------ claim on the pipeline at large
\* a hit is on its way: sent by the log processor and not yet read, or held
\* by the dispatch goroutine
EventPending == srcPc = "send" \/ dispPc \in {"toStats", "toAlarm"}

\* a step of one of the goroutines (time passing is not one)
TaskStep ==
    \/ DispRecv \/ DispToStats \/ DispToAlarm
    \/ PipeStatsTick \/ PipeAlarmTick \/ UiStats \/ UiAlert

\* both workers received every hit the log processor parsed
AllReceived == Len(statsRecv) = Len(srcSeq) /\ Len(alarmRecv) = Len(srcSeq)

\* C30: without shutdown and with the sink reading both out channels, a
\* state with a hit on its way always lets some goroutine take a step, and
\* every hit the log processor parsed is eventually received by both
\* workers: the input being finite, from some point on none is missing.
C30_NoDeadlock ==
    /\ [](EventPending => ENABLED TaskStep)
    /\ <>[]AllReceived

\* both workers received every hit, the StatsWorker having been blocked on
\* out by a tick and the AlarmWorker by an alert on the way
C30_Witness ==
    /\ Len(srcSeq) = MaxLines
    /\ Len(statsRecv) = MaxLines
    /\ Len(alarmRecv) = MaxLines
    /\ Len(alerts) >= 1
    /\ reported >= 1

\* ------------------------------------------------- claim on the parameters
\* C22: no worker runs with a window below 1, a stats interval below 1 or a
\* threshold below 1 (construction fails instead), and no Add, Sum or tick
\* fails at run time.
C22_InvalidConfigRejected ==
    /\ ~Crashed
    /\ Window(counter) >= 1
    /\ threshold >= 1
    /\ interval >= 1

====
